---- MODULE Spec2Model ----
(***************************************************************************)
(* Model of the dashboard executor of powerpipe                            *)
(* (internal/dashboardexecute/executor.go): the session -> execution tree  *)
(* registry, ExecuteDashboard, OnInputChanged, CancelExecutionForSession,  *)
(* validateInputs and clearDependentInputs.                                *)
(***************************************************************************)
EXTENDS Integers, Sequences, FiniteSets, TLC

\* ------------------------------------------------------------------ bounds

\* number of client calls (ExecuteDashboard, OnInputChanged,
\* CancelExecutionForSession) made in one behaviour
MaxCalls == 3

\* frames of clearDependentInputs the stand-alone run may stack up
MaxDepth == 5

\* ------------------------------------------------------------------ values

\* Go's nil, as an input value and as "no tree" / "no error"
Null == "null"

NoTree == 0

\* a Go error value: its kind, its text and the names it lists
Error(kind, text, names) == [kind |-> kind, text |-> text, names |-> names]

NoError == Error("nil", "", <<>>)

InputNames == {"a", "b", "c"}

InputValues == {Null, "v"}

Range(s) == {s[i] : i \in 1..Len(s)}

\* a Go map[string]any: a function from the keys present to their values
InputMaps(names) == UNION {[ks -> InputValues] : ks \in SUBSET names}

\* inputs[name]: Go yields nil for a key that is absent
MapGet(inputs, name) == IF name \in DOMAIN inputs THEN inputs[name] ELSE Null

\* inputs[name] = value
MapPut(inputs, name, value) ==
    [k \in (DOMAIN inputs) \cup {name} |-> IF k = name THEN value ELSE inputs[k]]

\* ------------------------------------------------------------ root resources

\* A root resource, as far as the executor reads it: the inputs it declares
\* (in declaration order), for each input the inputs it depends on, and the
\* input names the nodes of its tree depend on at run time.
Root(inputs, dependsOn, runtimeDeps) ==
    [inputs |-> inputs, dependsOn |-> dependsOn, runtimeDeps |-> runtimeDeps]

\* root.GetInputsDependingOn(changedInput): the declared inputs that depend on
\* changedInput, in declaration order
GetInputsDependingOn(root, changedInput) ==
    SelectSeq(root.inputs, LAMBDA n : changedInput \in root.dependsOn[n])

\* executionTree.InputRuntimeDependencies()
InputRuntimeDependencies(root) == root.runtimeDeps

\* ------------------------------------------------------------ validateInputs

\* utils.Pluralize("input", count)
Pluralize(base, count) == IF count = 1 THEN base ELSE base \o "s"

\* the append loop of validateInputs: the required names that are not keys
MissingInputs_NilValue(deps, inputs) ==
    SelectSeq(deps, LAMBDA n : MapGet(inputs, n) = Null)

MissingInputs(deps, inputs) ==
    SelectSeq(deps, LAMBDA n : n \notin DOMAIN inputs)

\* validateInputs(executionTree, inputs): nil in interactive mode, else an
\* error naming the missing inputs
validateInputs(interactive, root, inputs) ==
    IF interactive THEN NoError
    ELSE LET missingInputs == MissingInputs(InputRuntimeDependencies(root), inputs)
             missingCount == Len(missingInputs)
         IN  IF missingCount > 0
             THEN Error("validation", Pluralize("input", missingCount), missingInputs)
             ELSE NoError

\* ------------------------------------------------------ clearDependentInputs

\* "clear the input value": inputs[inputName] = nil
ClearInput_Forgotten(inputs, inputName) == inputs

ClearInput(inputs, inputName) == MapPut(inputs, inputName, Null)

RECURSIVE clearDependentInputs(_, _, _)
RECURSIVE clearLoop(_, _, _, _, _)

\* the range loop of clearDependentInputs from position i on
clearLoop(root, dependentInputs, i, inputs, clearedInputs) ==
    IF i > Len(dependentInputs)
    THEN [clearedInputs |-> clearedInputs, inputs |-> inputs]
    ELSE LET inputName == dependentInputs[i]
         IN  IF MapGet(inputs, inputName) # Null
             THEN LET child == clearDependentInputs(
                                   root, inputName, ClearInput(inputs, inputName))
                  IN  clearLoop(root, dependentInputs, i + 1, child.inputs,
                                clearedInputs \o child.clearedInputs)
             ELSE clearLoop(root, dependentInputs, i + 1, inputs, clearedInputs)

\* clearDependentInputs(root, changedInput, inputs): the returned slice and
\* the inputs map as the call leaves it
clearDependentInputs(root, changedInput, inputs) ==
    LET dependentInputs == GetInputsDependingOn(root, changedInput)
    IN  clearLoop(root, dependentInputs, 1, inputs, dependentInputs)

\* ------------------------------------------------------------------- state

Sessions == {"s1", "s2"}

\* the goroutines of the service that call into the executor
ProcOrder == <<"p1", "p2">>

Procs == Range(ProcOrder)

CallIds == 1..MaxCalls

\* a tree is named by the call that minted it
TreeIds == CallIds

Nodes == {"n1"}

TerminalStates == {"complete", "error", "cancelled"}

\* the root resources a client may ask for
RootNames == {"r1"}

\* r1 declares the inputs a and b, b depending on a; its nodes need both
RootOf(name) ==
    Root(<<"a", "b">>, [n \in InputNames |-> IF n = "b" THEN {"a"} ELSE {}],
         <<"a", "b">>)

\* input maps a client may send: none, b present and nil, a and b set
NoInputs == <<>>

NilB == [k \in {"b"} |-> Null]

BothSet == [k \in {"a", "b"} |-> "v"]

\* The clients of the service in one behaviour: the sessions they hold, the
\* input maps they send, the inputs they change, and whether the contexts
\* they pass may be cancelled or run out of time.
Clients(sessions, inputs, changed, ctxEnds) ==
    [sessions |-> sessions, inputs |-> inputs, changed |-> changed,
     ctxEnds |-> ctxEnds]

ClientSets ==
    {Clients({"s1"}, {NoInputs, BothSet}, {"a"}, FALSE),
     Clients({"s1", "s2"}, {BothSet}, {"a"}, FALSE),
     Clients({"s1"}, {NilB, BothSet}, {"a", "b"}, FALSE),
     Clients({"s1"}, {BothSet}, {"a"}, TRUE)}

VARIABLES
    interactive,    \* DashboardExecutor.interactive
    clients,        \* the clients of the service
    executions,     \* DashboardExecutor.executions: session -> tree (NoTree: no key)
    executionLock,  \* DashboardExecutor.executionLock: the goroutine holding it
    trees,          \* the execution trees minted so far
    procs,          \* each goroutine's position and locals
    calls,          \* per client call: its arguments, result and what it did
    nCalls,         \* client calls made so far
    clr             \* a stand-alone run of clearDependentInputs, frame by frame

vars == <<interactive, clients, executions, executionLock, trees, procs, calls, nCalls, clr>>

NoLock == "free"

\* A goroutine: where it is (pc), the call it runs with its arguments and
\* locals, and what that call has done so far (its error, the events it
\* published, the tree it found, cancelled, removed and registered).
IdleProc ==
    [pc |-> "idle", call |-> 0, op |-> "none", sessionId |-> "", rootResource |-> "",
     inputsIn |-> <<>>, inputs |-> <<>>, changedInput |-> "",
     executionTree |-> NoTree, oicTree |-> NoTree, inputPrevValue |-> Null,
     runStatus |-> "", err |-> NoError, ownErr |-> NoError, ctxErr |-> NoError,
     events |-> <<>>, branch |-> "none",
     clearedInputs |-> <<>>, foundTree |-> NoTree, cancelledTree |-> NoTree,
     removed |-> FALSE, removedTree |-> NoTree, newTree |-> NoTree]

\* what is kept of a call: the operation, its session, how far it is ("none",
\* "running", "returned") and the kind of the error it returned
NoCall == [op |-> "none", sessionId |-> "", state |-> "none", err |-> "nil"]

Call(op, sessionId, state, err) ==
    [op |-> op, sessionId |-> sessionId, state |-> state, err |-> err]

NoTreeState ==
    [minted |-> FALSE, sessionId |-> "", root |-> "", inputValues |-> <<>>,
     cancelInvoked |-> FALSE, ctxDone |-> FALSE, started |-> FALSE,
     inputsApplied |-> FALSE, everRegistered |-> FALSE,
     nodes |-> [n \in Nodes |-> "ready"]]

\* no stand-alone run of clearDependentInputs
ClrIdle ==
    [root |-> Root(<<>>, [n \in InputNames |-> {}], <<>>), changedInput |-> "",
     inputs0 |-> <<>>, inputs |-> <<>>, stack |-> <<>>, done |-> FALSE,
     result |-> <<>>]

\* NewDashboardExecutor, and the interactive flag as the command sets it
Init ==
    /\ interactive \in BOOLEAN
    /\ clients \in ClientSets
    /\ executions = [s \in Sessions |-> NoTree]
    /\ executionLock = NoLock
    /\ trees = [t \in TreeIds |-> NoTreeState]
    /\ procs = [p \in Procs |-> IdleProc]
    /\ calls = [c \in CallIds |-> NoCall]
    /\ nCalls = 0
    /\ clr = ClrIdle

\* A goroutine that has returned is done with its call before anything else
\* moves: Idle changes nothing but the goroutine's own record of the call, so
\* the state in which pc = "returned" is the state at the call's return.
\* Nothing moves once the runtime has ended the process with a fatal error.
NoneReturned == \A p \in Procs : procs[p].pc \notin {"returned", "fatal"}

\* ------------------------------------------------------------- the tree

IsTerminal(state) == state \in TerminalStates

AllNodesTerminal(t) == \A n \in Nodes : IsTerminal(trees[t].nodes[n])

\* executionTree.GetRunStatus(): terminal only once every node is terminal
GetRunStatus(t) ==
    LET ns == trees[t].nodes
    IN  IF \A n \in Nodes : IsTerminal(ns[n])
        THEN IF \E n \in Nodes : ns[n] = "error" THEN "error"
             ELSE IF \E n \in Nodes : ns[n] = "cancelled" THEN "cancelled"
             ELSE "complete"
        ELSE IF trees[t].started THEN "running"
             ELSE "initialized"

\* RunStatus.IsFinished()
IsFinished(status) == status \in {"complete", "error", "cancelled"}

\* executionTree.SetInputValues(inputs): store each value given
SetInputValues(tree, inputs) ==
    [tree EXCEPT
        !.inputValues = [k \in (DOMAIN tree.inputValues) \cup (DOMAIN inputs) |->
                            IF k \in DOMAIN inputs THEN inputs[k]
                            ELSE tree.inputValues[k]],
        !.inputsApplied = TRUE]

\* newDashboardExecutionTree(rootResource, sessionId, ...), when it succeeds
newDashboardExecutionTree(rootResource, sessionId) ==
    [NoTreeState EXCEPT !.minted = TRUE, !.sessionId = sessionId,
                        !.root = rootResource]

\* a node of a cancelled tree (by Cancel or by its context) becomes cancelled
NodeCancelled(t, n) ==
    /\ NoneReturned
    /\ trees[t].minted
    /\ trees[t].cancelInvoked \/ trees[t].ctxDone
    /\ ~IsTerminal(trees[t].nodes[n])
    /\ trees' = [trees EXCEPT ![t].nodes[n] = "cancelled"]
    /\ UNCHANGED <<interactive, clients, executions, executionLock, procs, calls, nCalls, clr>>

\* a node of a running tree ends, with its output or with an error
NodeEnds(t, n) ==
    /\ NoneReturned
    /\ trees[t].started
    /\ ~(trees[t].cancelInvoked \/ trees[t].ctxDone)
    /\ trees[t].nodes[n] = "ready"
    /\ \E s \in {"complete", "error"} :
           trees' = [trees EXCEPT ![t].nodes[n] = s]
    /\ UNCHANGED <<interactive, clients, executions, executionLock, procs, calls, nCalls, clr>>

\* ------------------------------------------------------- events and errors

\* dashboardevents.ExecutionError{Error, Session}
ExecutionError(err, sessionId) ==
    [type |-> "ExecutionError", session |-> sessionId, error |-> err,
     clearedInputs |-> <<>>, executionId |-> NoTree]

\* dashboardevents.InputValuesCleared{ClearedInputs, Session, ExecutionId}
InputValuesCleared(clearedInputs, sessionId, id) ==
    [type |-> "InputValuesCleared", session |-> sessionId, error |-> NoError,
     clearedInputs |-> clearedInputs, executionId |-> id]

\* context.Canceled and context.DeadlineExceeded
Canceled == Error("context", "context canceled", <<>>)

DeadlineExceeded == Error("context", "context deadline exceeded", <<>>)

\* ctx.Err() when the deferred function of ExecuteDashboard reads it
CtxErrs == IF clients.ctxEnds THEN {NoError, Canceled, DeadlineExceeded} ELSE {NoError}

TimedOut == Error("error", "execution timed out", <<>>)

ConstructionError == Error("construction", "cannot build the execution tree", <<>>)

\* fmt.Errorf("no dashboard running for session %s", sessionId)
NoDashboardError_Unnamed(sessionId) == Error("no dashboard running for session", "", <<>>)

NoDashboardError(sessionId) == Error("no dashboard running for session", sessionId, <<>>)

\* the error ExecuteDashboard returns: its deferred function replaces a nil
\* error by the context's, "execution timed out" for an elapsed deadline
DeferredError_NoNormalize(err, ctxErr) ==
    IF err = NoError /\ ctxErr # NoError THEN ctxErr ELSE err

DeferredError(err, ctxErr) ==
    IF err = NoError /\ ctxErr # NoError
    THEN IF ctxErr # NoError /\ ctxErr.text = DeadlineExceeded.text
         THEN TimedOut
         ELSE ctxErr
    ELSE err

\* the events the deferred function of ExecuteDashboard publishes
DeferredEvents_Always(err, sessionId) == <<ExecutionError(err, sessionId)>>

DeferredEvents(err, sessionId) ==
    IF err # NoError THEN <<ExecutionError(err, sessionId)>> ELSE <<>>

\* ------------------------------------------------------------- the calls

Others == <<interactive, clients, clr>>

\* Goroutines are interchangeable: a new call is taken by the first idle one.
MayInvoke(p) ==
    /\ NoneReturned
    /\ procs[p].pc = "idle"
    /\ nCalls < MaxCalls
    /\ \A i \in 1..Len(ProcOrder) :
           (ProcOrder[i] = p) => \A j \in 1..(i - 1) : procs[ProcOrder[j]].pc # "idle"

\* the goroutine's record when its call begins
NewCall(op, sessionId, rootResource, inputs, changedInput, pc) ==
    [IdleProc EXCEPT !.pc = pc, !.call = nCalls + 1, !.op = op,
                     !.sessionId = sessionId, !.rootResource = rootResource,
                     !.inputsIn = inputs, !.inputs = inputs,
                     !.changedInput = changedInput]

\* A client calls ExecuteDashboard(ctx, sessionId, rootResource, inputs, ...):
\* nothing is shared before CancelExecutionForSession takes the lock in
\* getExecution, so the call begins there.
InvokeExecuteDashboard(p) ==
    /\ MayInvoke(p)
    /\ executionLock = NoLock
    /\ executionLock' = p
    /\ \E s \in clients.sessions, r \in RootNames, i \in clients.inputs :
        /\ procs' = [procs EXCEPT ![p] =
               NewCall("ExecuteDashboard", s, r, i, "", "cancel_get_locked")]
        /\ calls' = [calls EXCEPT ![nCalls + 1] =
               Call("ExecuteDashboard", s, "running", "nil")]
    /\ nCalls' = nCalls + 1
    /\ UNCHANGED <<executions, trees, Others>>

\* A client calls CancelExecutionForSession(ctx, sessionId): the call begins
\* with the lock taken in getExecution.
InvokeCancelExecutionForSession(p) ==
    /\ MayInvoke(p)
    /\ executionLock = NoLock
    /\ executionLock' = p
    /\ \E s \in clients.sessions :
        /\ procs' = [procs EXCEPT ![p] =
               NewCall("CancelExecutionForSession", s, "", <<>>, "",
                       "cancel_get_locked")]
        /\ calls' = [calls EXCEPT ![nCalls + 1] =
               Call("CancelExecutionForSession", s, "running", "nil")]
    /\ nCalls' = nCalls + 1
    /\ UNCHANGED <<executions, trees, Others>>

\* the call on goroutine p returns err to its client
Return(p, proc, err) ==
    /\ procs' = [procs EXCEPT ![p] = [proc EXCEPT !.pc = "returned", !.err = err]]
    /\ calls' = [calls EXCEPT ![procs[p].call].state = "returned",
                              ![procs[p].call].err = err.kind]

\* ExecuteDashboard returns with err of its own while ctx.Err() is ctxErr: the
\* deferred function sets the error returned and publishes the event
ExecuteDashboardReturns(p, proc, err, ctxErr) ==
    LET final == DeferredError(err, ctxErr)
    IN  Return(p, [proc EXCEPT !.ownErr = err, !.ctxErr = ctxErr,
                               !.events = @ \o DeferredEvents(final, proc.sessionId)],
               final)

\* the goroutine is done with the call it ran
Idle(p) ==
    /\ procs[p].pc = "returned"
    /\ procs' = [procs EXCEPT ![p] = IdleProc]
    /\ UNCHANGED <<executions, executionLock, trees, calls, nCalls, Others>>

\* ------------------------------------------- CancelExecutionForSession

\* CancelExecutionForSession returns: to the client, or on into the
\* ExecuteDashboard that called it
AfterCancel(p, proc) ==
    IF proc.op = "CancelExecutionForSession"
    THEN Return(p, proc, NoError)
    ELSE /\ procs' = [procs EXCEPT ![p] = [proc EXCEPT !.pc = "ed_new"]]
         /\ UNCHANGED calls

\* getExecution: e.executionLock.Lock()
GetExecutionLock(p) ==
    /\ NoneReturned
    /\ procs[p].pc = "cancel_get"
    /\ executionLock = NoLock
    /\ executionLock' = p
    /\ procs' = [procs EXCEPT ![p].pc = "cancel_get_locked"]
    /\ UNCHANGED <<executions, trees, calls, nCalls, Others>>

GetExecutionFound_KeepsLock(p) ==
    /\ NoneReturned
    /\ procs[p].pc = "cancel_get_locked"
    /\ executions[procs[p].sessionId] # NoTree
    /\ procs' = [procs EXCEPT ![p].pc = "cancel_tree",
                              ![p].executionTree = executions[procs[p].sessionId],
                              ![p].foundTree = executions[procs[p].sessionId]]
    /\ UNCHANGED <<executions, executionLock, trees, calls, nCalls, Others>>

\* getExecution reads the map and unlocks; found: on to executionTree.Cancel()
GetExecutionFound(p) ==
    /\ NoneReturned
    /\ procs[p].pc = "cancel_get_locked"
    /\ executions[procs[p].sessionId] # NoTree
    /\ executionLock' = NoLock
    /\ procs' = [procs EXCEPT ![p].pc = "cancel_tree",
                              ![p].executionTree = executions[procs[p].sessionId],
                              ![p].foundTree = executions[procs[p].sessionId]]
    /\ UNCHANGED <<executions, trees, calls, nCalls, Others>>

\* getExecution reads the map and unlocks; not found: nothing to do
GetExecutionNotFound(p) ==
    /\ NoneReturned
    /\ procs[p].pc = "cancel_get_locked"
    /\ executions[procs[p].sessionId] = NoTree
    /\ executionLock' = NoLock
    /\ AfterCancel(p, procs[p])
    /\ UNCHANGED <<executions, trees, nCalls, Others>>

TreeCancel_Skipped(p) ==
    /\ NoneReturned
    /\ procs[p].pc = "cancel_tree"
    /\ procs' = [procs EXCEPT ![p].pc = "cancel_remove",
                              ![p].cancelledTree = procs[p].executionTree]
    /\ UNCHANGED <<executions, executionLock, trees, calls, nCalls, Others>>

\* executionTree.Cancel()
TreeCancel(p) ==
    /\ NoneReturned
    /\ procs[p].pc = "cancel_tree"
    /\ trees' = [trees EXCEPT ![procs[p].executionTree].cancelInvoked = TRUE]
    /\ procs' = [procs EXCEPT ![p].pc = "cancel_remove",
                              ![p].cancelledTree = procs[p].executionTree]
    /\ UNCHANGED <<executions, executionLock, calls, nCalls, Others>>

\* removeExecution: e.executionLock.Lock()
RemoveExecutionLock(p) ==
    /\ NoneReturned
    /\ procs[p].pc = "cancel_remove"
    /\ executionLock = NoLock
    /\ executionLock' = p
    /\ procs' = [procs EXCEPT ![p].pc = "cancel_remove_locked"]
    /\ UNCHANGED <<executions, trees, calls, nCalls, Others>>

\* delete(e.executions, sessionId)
deleteExecution_Kept(m, sessionId) == m

deleteExecution(m, sessionId) == [m EXCEPT ![sessionId] = NoTree]

\* removeExecution: delete(e.executions, sessionId) and unlock
RemoveExecution(p) ==
    /\ NoneReturned
    /\ procs[p].pc = "cancel_remove_locked"
    /\ executions' = deleteExecution(executions, procs[p].sessionId)
    /\ executionLock' = NoLock
    /\ AfterCancel(p, [procs[p] EXCEPT !.executionTree = NoTree,
                                       !.removed = TRUE,
                                       !.removedTree = executions[procs[p].sessionId]])
    /\ UNCHANGED <<trees, nCalls, Others>>

\* ------------------------------------------------------ ExecuteDashboard

\* newDashboardExecutionTree fails: ExecuteDashboard returns its error
NewTreeFails(p) ==
    /\ NoneReturned
    /\ procs[p].pc = "ed_new"
    /\ \E ctxErr \in CtxErrs :
           ExecuteDashboardReturns(p, procs[p], ConstructionError, ctxErr)
    /\ UNCHANGED <<executions, executionLock, trees, nCalls, Others>>

\* the tree is built and validateInputs fails: ExecuteDashboard returns its error
ValidateFails(p) ==
    /\ NoneReturned
    /\ procs[p].pc = "ed_new"
    /\ validateInputs(interactive, RootOf(procs[p].rootResource), procs[p].inputs)
           # NoError
    /\ trees' = [trees EXCEPT ![procs[p].call] =
           newDashboardExecutionTree(procs[p].rootResource, procs[p].sessionId)]
    /\ \E ctxErr \in CtxErrs :
           ExecuteDashboardReturns(
               p, [procs[p] EXCEPT !.newTree = procs[p].call],
               validateInputs(interactive, RootOf(procs[p].rootResource),
                              procs[p].inputs),
               ctxErr)
    /\ UNCHANGED <<executions, executionLock, nCalls, Others>>

\* the tree is built and validateInputs passes: on to setExecution
NewTreeValid(p) ==
    /\ NoneReturned
    /\ procs[p].pc = "ed_new"
    /\ validateInputs(interactive, RootOf(procs[p].rootResource), procs[p].inputs)
           = NoError
    /\ trees' = [trees EXCEPT ![procs[p].call] =
           newDashboardExecutionTree(procs[p].rootResource, procs[p].sessionId)]
    /\ procs' = [procs EXCEPT ![p].pc = "ed_set", ![p].executionTree = procs[p].call,
                              ![p].newTree = procs[p].call]
    /\ UNCHANGED <<executions, executionLock, calls, nCalls, Others>>

\* setExecution: e.executionLock.Lock()
SetExecutionLock(p) ==
    /\ NoneReturned
    /\ procs[p].pc = "ed_set"
    /\ executionLock = NoLock
    /\ executionLock' = p
    /\ procs' = [procs EXCEPT ![p].pc = "ed_set_locked"]
    /\ UNCHANGED <<executions, trees, calls, nCalls, Others>>

\* setExecution: e.executions[sessionId] = executionTree and unlock
SetExecution(p) ==
    /\ NoneReturned
    /\ procs[p].pc = "ed_set_locked"
    /\ executions' = [executions EXCEPT ![procs[p].sessionId] = procs[p].executionTree]
    /\ executionLock' = NoLock
    /\ trees' = [trees EXCEPT ![procs[p].executionTree].everRegistered = TRUE]
    /\ procs' = [procs EXCEPT ![p].pc = "ed_start"]
    /\ UNCHANGED <<calls, nCalls, Others>>

\* the inputs passed are set on the tree, go executionTree.Execute(ctx), return
\* nil; the deferred function then reads ctx.Err()
StartExecution(p) ==
    /\ NoneReturned
    /\ procs[p].pc = "ed_start"
    /\ \E ctxErr \in CtxErrs :
        /\ trees' = [trees EXCEPT ![procs[p].executionTree] =
               [(IF Cardinality(DOMAIN procs[p].inputs) > 0
                 THEN SetInputValues(trees[procs[p].executionTree], procs[p].inputs)
                 ELSE trees[procs[p].executionTree])
                EXCEPT !.started = TRUE, !.ctxDone = (ctxErr # NoError)]]
        /\ ExecuteDashboardReturns(p, procs[p], NoError, ctxErr)
    /\ UNCHANGED <<executions, executionLock, nCalls, Others>>

\* -------------------------------------------------------- OnInputChanged

\* e.executions[sessionId] read without the lock (executor.go line 146). A
\* goroutine inside setExecution or removeExecution is writing the map at that
\* moment: the read then races with the write, and it yields the entry as it
\* was, or the entry as the write leaves it, or the runtime stops the process
\* ("fatal error: concurrent map read and map write").
Writers == {q \in Procs : procs[q].pc \in {"ed_set_locked", "cancel_remove_locked"}}

UnlockedRead(sessionId) ==
    {executions[sessionId]}
        \cup {procs[q].executionTree :
                 q \in {w \in Writers : /\ procs[w].pc = "ed_set_locked"
                                         /\ procs[w].sessionId = sessionId}}
        \cup {NoTree :
                 q \in {w \in Writers : /\ procs[w].pc = "cancel_remove_locked"
                                         /\ procs[w].sessionId = sessionId}}

\* A client calls OnInputChanged(ctx, sessionId, inputs, changedInput) and the
\* read of the registry finds no tree: the error is returned.
OicNotFound(p) ==
    /\ MayInvoke(p)
    /\ \E s \in clients.sessions, i \in clients.inputs, c \in clients.changed :
        /\ NoTree \in UnlockedRead(s)
        /\ procs' = [procs EXCEPT ![p] =
               [NewCall("OnInputChanged", s, "", i, c, "returned") EXCEPT
                   !.err = NoDashboardError(s)]]
        /\ calls' = [calls EXCEPT ![nCalls + 1] =
               Call("OnInputChanged", s, "returned", NoDashboardError(s).kind)]
    /\ nCalls' = nCalls + 1
    /\ UNCHANGED <<executions, executionLock, trees, Others>>

\* A client calls OnInputChanged(ctx, sessionId, inputs, changedInput) and the
\* read of the registry finds a tree: the previous value is read, the
\* dependent inputs are cleared, and the event is published when the returned
\* slice is not empty.
OicFound(p) ==
    /\ MayInvoke(p)
    /\ \E s \in clients.sessions, i \in clients.inputs, c \in clients.changed :
        /\ \E t \in UnlockedRead(s) \ {NoTree} :
             LET tree == trees[t]
                 res == clearDependentInputs(RootOf(tree.root), c, i)
             IN  procs' = [procs EXCEPT ![p] =
                     [NewCall("OnInputChanged", s, "", i, c, "oic_decide") EXCEPT
                         !.oicTree = t,
                         !.inputPrevValue = MapGet(tree.inputValues, c),
                         !.inputs = res.inputs,
                         !.clearedInputs = res.clearedInputs,
                         !.events =
                             IF Len(res.clearedInputs) > 0
                             THEN <<InputValuesCleared(res.clearedInputs,
                                                       tree.sessionId, t)>>
                             ELSE <<>>]]
        /\ calls' = [calls EXCEPT ![nCalls + 1] =
               Call("OnInputChanged", s, "running", "nil")]
    /\ nCalls' = nCalls + 1
    /\ UNCHANGED <<executions, executionLock, trees, Others>>

\* A client calls OnInputChanged(ctx, sessionId, inputs, changedInput) while
\* the map is being written, and the runtime detects the concurrent access.
OicFatal(p) ==
    /\ MayInvoke(p)
    /\ Writers # {}
    /\ \E s \in clients.sessions, i \in clients.inputs, c \in clients.changed :
        /\ procs' = [procs EXCEPT ![p] =
               NewCall("OnInputChanged", s, "", i, c, "fatal")]
        /\ calls' = [calls EXCEPT ![nCalls + 1] =
               Call("OnInputChanged", s, "running", "nil")]
    /\ nCalls' = nCalls + 1
    /\ UNCHANGED <<executions, executionLock, trees, Others>>

\* whether OnInputChanged restarts the dashboard
MustRestart_And(t, inputPrevValue) ==
    IsFinished(GetRunStatus(t)) /\ inputPrevValue # Null

MustRestart(t, inputPrevValue) ==
    IsFinished(GetRunStatus(t)) \/ inputPrevValue # Null

\* the run is finished or the input had a value: ExecuteDashboard is called
\* with the tree's root resource and the inputs
OicRestart(p) ==
    /\ NoneReturned
    /\ procs[p].pc = "oic_decide"
    /\ MustRestart(procs[p].oicTree, procs[p].inputPrevValue)
    /\ procs' = [procs EXCEPT ![p].pc = "cancel_get", ![p].branch = "restart",
                              ![p].runStatus = GetRunStatus(procs[p].oicTree),
                              ![p].rootResource = trees[procs[p].oicTree].root]
    /\ UNCHANGED <<executions, executionLock, trees, calls, nCalls, Others>>

\* otherwise executionTree.SetInputValues(inputs), and nil is returned
OicApply(p) ==
    /\ NoneReturned
    /\ procs[p].pc = "oic_decide"
    /\ ~MustRestart(procs[p].oicTree, procs[p].inputPrevValue)
    /\ trees' = [trees EXCEPT ![procs[p].oicTree] =
                     SetInputValues(trees[procs[p].oicTree], procs[p].inputs)]
    /\ Return(p, [procs[p] EXCEPT !.branch = "apply",
                                   !.runStatus = GetRunStatus(procs[p].oicTree)],
              NoError)
    /\ UNCHANGED <<executions, executionLock, nCalls, Others>>

\* ----------------------------------------------------------------- Spec

ProcStep(p) ==
    \/ InvokeExecuteDashboard(p)
    \/ InvokeCancelExecutionForSession(p)
    \/ GetExecutionLock(p)
    \/ GetExecutionFound(p)
    \/ GetExecutionNotFound(p)
    \/ TreeCancel(p)
    \/ RemoveExecutionLock(p)
    \/ RemoveExecution(p)
    \/ NewTreeFails(p)
    \/ ValidateFails(p)
    \/ NewTreeValid(p)
    \/ SetExecutionLock(p)
    \/ SetExecution(p)
    \/ StartExecution(p)
    \/ OicNotFound(p)
    \/ OicFound(p)
    \/ OicFatal(p)
    \/ OicRestart(p)
    \/ OicApply(p)

NodeStep(t, n) ==
    \/ NodeCancelled(t, n)
    \/ NodeEnds(t, n)

Next ==
    \/ \E p \in Procs : Idle(p)
    \/ \E p \in Procs : ProcStep(p)
    \/ \E t \in TreeIds, n \in Nodes : NodeStep(t, n)

Spec == Init /\ [][Next]_vars

\* ------------------------------------- clearDependentInputs, frame by frame

\* all declared input-dependency graphs over InputNames, cycles and
\* self-dependencies included
AllRoots ==
    {Root(<<"a", "b", "c">>, d, <<>>) : d \in [InputNames -> SUBSET InputNames]}

\* a frame of clearDependentInputs: its changedInput, the slice it ranges
\* over, the position of the range loop and its clearedInputs
Frame(root, changedInput) ==
    [changedInput |-> changedInput,
     dependentInputs |-> GetInputsDependingOn(root, changedInput),
     i |-> 1,
     clearedInputs |-> GetInputsDependingOn(root, changedInput)]

\* a call clearDependentInputs(root, changedInput, inputs) is about to run
InitClear ==
    /\ interactive = TRUE
    /\ clients = Clients({"s1"}, {NoInputs}, {"a"}, FALSE)
    /\ executions = [s \in Sessions |-> NoTree]
    /\ executionLock = NoLock
    /\ trees = [t \in TreeIds |-> NoTreeState]
    /\ procs = [p \in Procs |-> IdleProc]
    /\ calls = [c \in CallIds |-> NoCall]
    /\ nCalls = 0
    /\ \E root \in AllRoots, changedInput \in InputNames, inputs \in InputMaps(InputNames) :
           clr = [root |-> root, changedInput |-> changedInput, inputs0 |-> inputs,
                  inputs |-> inputs, stack |-> <<Frame(root, changedInput)>>,
                  done |-> FALSE, result |-> <<>>]

NotClr == <<interactive, clients, executions, executionLock, trees, procs, calls, nCalls>>

TopFrame == clr.stack[Len(clr.stack)]

\* the range loop meets an input that is nil (or absent): next iteration
ClearSkip ==
    /\ ~clr.done
    /\ TopFrame.i <= Len(TopFrame.dependentInputs)
    /\ MapGet(clr.inputs, TopFrame.dependentInputs[TopFrame.i]) = Null
    /\ clr' = [clr EXCEPT !.stack[Len(clr.stack)].i = @ + 1]
    /\ UNCHANGED NotClr

\* the range loop meets an input with a value: it is cleared and
\* clearDependentInputs is called for it
ClearRecurse ==
    /\ ~clr.done
    /\ Len(clr.stack) < MaxDepth
    /\ TopFrame.i <= Len(TopFrame.dependentInputs)
    /\ LET inputName == TopFrame.dependentInputs[TopFrame.i]
       IN  /\ MapGet(clr.inputs, inputName) # Null
           /\ clr' = [clr EXCEPT
                  !.inputs = ClearInput(clr.inputs, inputName),
                  !.stack = Append(clr.stack, Frame(clr.root, inputName))]
    /\ UNCHANGED NotClr

\* the range loop is over: clearedInputs is returned, to the calling frame
\* (which appends it and goes on) or to the caller
ClearReturn ==
    /\ ~clr.done
    /\ TopFrame.i > Len(TopFrame.dependentInputs)
    /\ IF Len(clr.stack) > 1
       THEN clr' = [clr EXCEPT
                !.stack = [SubSeq(clr.stack, 1, Len(clr.stack) - 1) EXCEPT
                    ![Len(clr.stack) - 1].clearedInputs = @ \o TopFrame.clearedInputs,
                    ![Len(clr.stack) - 1].i = @ + 1]]
       ELSE clr' = [clr EXCEPT !.stack = <<>>, !.done = TRUE,
                               !.result = TopFrame.clearedInputs]
    /\ UNCHANGED NotClr

NextClear == ClearSkip \/ ClearRecurse \/ ClearReturn

SpecClear == InitClear /\ [][NextClear]_vars

\* the goroutine running clearDependentInputs keeps running
FairSpecClear == SpecClear /\ WF_vars(NextClear)

\* the frames compute what the function computes
ClearFramesAgree ==
    clr.done =>
        LET res == clearDependentInputs(clr.root, clr.changedInput, clr.inputs0)
        IN  clr.result = res.clearedInputs /\ clr.inputs = res.inputs

\* ------------------------------------------------- clearDependentInputs: claims

\* the declared inputs that depend on some input of the set names
Dependents(root, names) ==
    {n \in Range(root.inputs) : root.dependsOn[n] \cap names # {}}

RECURSIVE DependentsWithin(_, _, _)
DependentsWithin(root, names, k) ==
    IF k = 0 THEN names
    ELSE DependentsWithin(root, names \cup Dependents(root, names), k - 1)

\* the transitive closure of the declared dependents of changedInput
TransitiveDependents(root, changedInput) ==
    DependentsWithin(root, Dependents(root, {changedInput}), Cardinality(InputNames))

NonNull(inputs) == {n \in DOMAIN inputs : inputs[n] # Null}

\* C3, as claimed: the names clearDependentInputs returns are the transitive
\* dependents of the changed input that are non-null in the inputs given, and
\* every name returned was non-null before the call and is null after it.
C3_ReturnsNonNullClosure ==
    clr.done =>
        /\ Range(clr.result) =
               TransitiveDependents(clr.root, clr.changedInput) \cap NonNull(clr.inputs0)
        /\ \A n \in Range(clr.result) :
               MapGet(clr.inputs0, n) # Null /\ MapGet(clr.inputs, n) = Null

\* C4: clearDependentInputs terminates for every declared dependency graph,
\* cycles and self-dependencies included, and for every inputs map; the calls
\* nested inside the first one never exceed the number of inputs that are
\* non-null at the start.
C4_ClearTerminates ==
    /\ <>clr.done
    /\ [](Len(clr.stack) <= Cardinality(NonNull(clr.inputs0)) + 1)

\* C4's case: the changed input depends on itself and on a cycle through the
\* other inputs, every input has a value, and the call has returned.
C4_CycleCleared ==
    /\ clr.done
    /\ clr.changedInput \in clr.root.dependsOn[clr.changedInput]
    /\ \A n \in InputNames : clr.root.dependsOn[n] = InputNames
    /\ NonNull(clr.inputs0) = InputNames
    /\ NonNull(clr.inputs) = {}


\* ------------------------------------------------- the executor: claims

\* goroutine p is at the return of the call it ran
Returned(p) == procs[p].pc = "returned"

\* goroutine p ran ExecuteDashboard: called by the client, or by OnInputChanged
RanExecuteDashboard(p) ==
    procs[p].op = "ExecuteDashboard" \/ procs[p].branch = "restart"

\* the calls made so far for session s
CallsOf(s) == {c \in 1..nCalls : calls[c].sessionId = s}

Latest(cs) == CHOOSE c \in cs : \A d \in cs : d <= c

\* C1: whatever the interleaving of ExecuteDashboard calls on one session, once
\* all of them have returned successfully the tree registered for the session
\* is the one minted by the call invoked last (the registry, a map, holds at
\* most one tree per session by construction).
C1_LastInvokedWins ==
    \A s \in Sessions :
        (/\ CallsOf(s) # {}
         /\ \A c \in CallsOf(s) :
                /\ calls[c].op = "ExecuteDashboard"
                /\ calls[c].state = "returned"
                /\ calls[c].err = "nil")
            => executions[s] = Latest(CallsOf(s))

\* the names validateInputs has to find: the runtime dependencies that are not
\* keys of the inputs
MissingKeys(p) ==
    {n \in Range(InputRuntimeDependencies(RootOf(procs[p].rootResource))) :
        n \notin DOMAIN procs[p].inputs}

\* C2: in batch mode, when the tree's runtime dependencies contain a name that
\* is not a key of the inputs, ExecuteDashboard returns an error that counts
\* and names exactly the missing names, and the tree it built is never
\* registered, never seeded with inputs and never started; when every name is a
\* key, and in interactive mode, validation does not fail.
C2_BatchValidation ==
    /\ \A p \in Procs :
        (Returned(p) /\ RanExecuteDashboard(p) /\ procs[p].newTree # NoTree) =>
            IF ~interactive /\ MissingKeys(p) # {}
            THEN /\ procs[p].err.kind = "validation"
                 /\ Range(procs[p].err.names) = MissingKeys(p)
                 /\ Len(procs[p].err.names) = Cardinality(MissingKeys(p))
                 /\ procs[p].err.text =
                        (IF Cardinality(MissingKeys(p)) = 1 THEN "input" ELSE "inputs")
                 /\ procs[p].events = << ExecutionError(procs[p].err, procs[p].sessionId) >>
                        \/ procs[p].op = "OnInputChanged"
            ELSE procs[p].err.kind # "validation"
    /\ \A c \in 1..nCalls :
        calls[c].err = "validation" =>
            /\ trees[c].minted
            /\ ~trees[c].everRegistered
            /\ ~trees[c].inputsApplied
            /\ ~trees[c].started
            /\ \A s \in Sessions : executions[s] # c

\* a batch-mode call returned the validation error for the one missing name
\* while another name was a key holding nil
C2_OneMissingReported ==
    \E p \in Procs :
        /\ Returned(p)
        /\ procs[p].err.kind = "validation"
        /\ procs[p].err.names = <<"a">>
        /\ "b" \in DOMAIN procs[p].inputs
        /\ procs[p].inputs["b"] = Null

\* goroutine p is at the return of an OnInputChanged that found the tree T
OicReturned(p) ==
    Returned(p) /\ procs[p].op = "OnInputChanged" /\ procs[p].oicTree # NoTree

\* the condition of executor.go line 165 on what the call observed
RestartCondition(p) ==
    IsFinished(procs[p].runStatus) \/ procs[p].inputPrevValue # Null

\* C5 as stated: when T's run status is terminal or the changed input had a
\* non-null value, T is cancelled and a newly minted tree replaces it in the
\* registry; otherwise the call leaves T registered and uncancelled and applies
\* the inputs to T.
C5_RestartReplacesTree ==
    \A p \in Procs :
        OicReturned(p) =>
            IF RestartCondition(p)
            THEN /\ trees[procs[p].oicTree].cancelInvoked
                 /\ procs[p].newTree # NoTree
                 /\ executions[procs[p].sessionId] = procs[p].newTree
            ELSE /\ procs[p].cancelledTree = NoTree
                 /\ ~procs[p].removed
                 /\ trees[procs[p].oicTree].inputsApplied

\* C5, amended: when T's run status is terminal or the changed input had a
\* non-null value, the call runs ExecuteDashboard for the session with T's root
\* resource and the cleared inputs and returns its result: the tree that call
\* finds registered (T, unless another call replaced or removed it meanwhile)
\* is cancelled and removed, and a newly minted tree is registered and started
\* when construction and validation succeed; otherwise the call cancels and
\* removes nothing, applies the inputs to T with SetInputValues and returns nil.
C5_RestartDecision ==
    \A p \in Procs :
        OicReturned(p) =>
            LET T == procs[p].oicTree
                T2 == procs[p].newTree
            IN  IF RestartCondition(p)
                THEN /\ procs[p].branch = "restart"
                     /\ procs[p].rootResource = trees[T].root
                     /\ procs[p].sessionId = trees[T].sessionId
                     /\ procs[p].foundTree = T => trees[T].cancelInvoked
                     /\ procs[p].foundTree # NoTree =>
                            /\ procs[p].cancelledTree = procs[p].foundTree
                            /\ procs[p].removed
                     /\ procs[p].ownErr = NoError =>
                            /\ T2 # NoTree /\ T2 # T
                            /\ trees[T2].everRegistered
                            /\ trees[T2].started
                            /\ trees[T2].root = trees[T].root
                            /\ \A k \in DOMAIN procs[p].inputs :
                                   trees[T2].inputValues[k] = procs[p].inputs[k]
                     /\ procs[p].ownErr # NoError =>
                            /\ procs[p].err = procs[p].ownErr
                            /\ T2 # NoTree => ~trees[T2].everRegistered
                ELSE /\ procs[p].branch = "apply"
                     /\ procs[p].err = NoError
                     /\ procs[p].cancelledTree = NoTree
                     /\ ~procs[p].removed
                     /\ T2 = NoTree
                     /\ trees[T].inputsApplied
                     /\ \A k \in DOMAIN procs[p].inputs :
                            trees[T].inputValues[k] = procs[p].inputs[k]

\* an OnInputChanged restarted a tree that had finished although the changed
\* input had no value before, and the new tree is the registered one
C5_RestartedFinishedTree ==
    \E p \in Procs :
        /\ OicReturned(p)
        /\ procs[p].branch = "restart"
        /\ procs[p].inputPrevValue = Null
        /\ IsFinished(procs[p].runStatus)
        /\ procs[p].err = NoError
        /\ executions[procs[p].sessionId] = procs[p].newTree

\* goroutine p is at the return of an OnInputChanged that found no tree
OicRejected(p) ==
    Returned(p) /\ procs[p].op = "OnInputChanged" /\ procs[p].oicTree = NoTree

\* C6: OnInputChanged for a session with no registered tree returns the error
\* "no dashboard running for session <id>" naming that session, having
\* published no event and changed no input value; the step that looks the
\* session up leaves the registry and every tree as they were, and takes this
\* way out whenever the session has no tree and no write of the registry is in
\* progress.
C6_UnknownSessionRejected ==
    /\ [](\A p \in Procs :
             OicRejected(p) =>
                 /\ procs[p].err.kind = "no dashboard running for session"
                 /\ procs[p].err.text = procs[p].sessionId
                 /\ procs[p].events = <<>>
                 /\ procs[p].inputs = procs[p].inputsIn
                 /\ procs[p].clearedInputs = <<>>
                 /\ procs[p].newTree = NoTree /\ procs[p].cancelledTree = NoTree)
    /\ [][\A p \in Procs :
             (procs[p].pc = "idle" /\ procs'[p].op = "OnInputChanged") =>
                 /\ executions' = executions
                 /\ trees' = trees
                 /\ (executions[procs'[p].sessionId] = NoTree /\ Writers = {}) =>
                        procs'[p].pc = "returned" /\ procs'[p].oicTree = NoTree]_vars

\* an OnInputChanged was rejected for one session while another session had a
\* registered tree
C6_RejectedBesideRunning ==
    \E p \in Procs :
        /\ Returned(p)
        /\ procs[p].op = "OnInputChanged"
        /\ procs[p].err = NoDashboardError(procs[p].sessionId)
        /\ executions[procs[p].sessionId] = NoTree
        /\ \E s \in Sessions : executions[s] # NoTree

\* the step in which CancelExecutionForSession, on goroutine p, looks up a
\* session that has no registered tree
CancelUnknownSession(p) ==
    /\ procs[p].pc = "cancel_get_locked"
    /\ procs[p].op = "CancelExecutionForSession"
    /\ executions[procs[p].sessionId] = NoTree
    /\ procs'[p] # procs[p]

\* C7: CancelExecutionForSession for a session with no registered tree returns
\* having cancelled and removed nothing, with the registry and every tree as
\* they were; and every CancelExecutionForSession returns with the session's
\* entry absent, so that a second call in a row is the no-op just described.
C7_CancelIdempotent ==
    /\ [][\A p \in Procs :
             CancelUnknownSession(p) =>
                 /\ procs'[p].pc = "returned"
                 /\ procs'[p].err = NoError
                 /\ procs'[p].cancelledTree = NoTree
                 /\ ~procs'[p].removed
                 /\ procs'[p].events = <<>>
                 /\ executions' = executions
                 /\ trees' = trees]_vars
    /\ [](\A p \in Procs :
             (Returned(p) /\ procs[p].op = "CancelExecutionForSession") =>
                 executions[procs[p].sessionId] = NoTree)

\* a CancelExecutionForSession returned as a no-op after an earlier one had
\* cancelled and removed the session's tree
C7_SecondCancelNoOp ==
    \E p \in Procs :
        /\ Returned(p)
        /\ procs[p].op = "CancelExecutionForSession"
        /\ procs[p].foundTree = NoTree
        /\ \E c \in 1..(procs[p].call - 1) :
               /\ calls[c].op = "CancelExecutionForSession"
               /\ calls[c].sessionId = procs[p].sessionId
               /\ calls[c].state = "returned"
        /\ \E t \in TreeIds :
               /\ trees[t].cancelInvoked
               /\ trees[t].sessionId = procs[p].sessionId

C8_ProgressWhileRunning ==
    \A t \in TreeIds :
        trees[t].cancelInvoked ~>
            (AllNodesTerminal(t) \/ \E p \in Procs : procs[p].pc = "fatal")

\* Progress is checked for the clients of one session that pass no inputs or
\* all of them, in either mode: while a goroutine or a node of a tree can take
\* a step, some step is taken.
FairInit == Init /\ clients = Clients({"s1"}, {NoInputs, BothSet}, {"a"}, FALSE)

FairSpec == FairInit /\ [][Next]_vars /\ WF_vars(Next)

\* goroutine p is in, or at the return of, an ExecuteDashboard that found the
\* tree T1 registered for its session and has created its own tree T2
Replacing(p) ==
    /\ RanExecuteDashboard(p)
    /\ procs[p].foundTree # NoTree
    /\ procs[p].newTree # NoTree

\* C9 as stated: T1's Cancel is invoked and T1 is out of the registry before T2
\* is created, registered or started, the call does not return before T1's
\* Cancel is invoked, and on success the registry holds T2 for the session.
C9_RegistryHoldsNewTree ==
    \A p \in Procs :
        /\ Replacing(p) =>
               /\ trees[procs[p].foundTree].cancelInvoked
               /\ \A s \in Sessions : executions[s] # procs[p].foundTree
        /\ (Returned(p) /\ RanExecuteDashboard(p) /\ procs[p].foundTree # NoTree) =>
               /\ trees[procs[p].foundTree].cancelInvoked
               /\ procs[p].err = NoError =>
                      executions[procs[p].sessionId] = procs[p].newTree

\* C9, amended: T1's Cancel is invoked and T1 is out of the registry before T2
\* is created, registered or started, the call does not return before T1's
\* Cancel is invoked, and on success the call has registered T2 for the session
\* and then started it (another call may have removed or replaced the entry by
\* the time this one returns).
C9_ReplacementOrdering ==
    \A p \in Procs :
        /\ Replacing(p) =>
               /\ trees[procs[p].foundTree].cancelInvoked
               /\ procs[p].cancelledTree = procs[p].foundTree
               /\ procs[p].removed
               /\ \A s \in Sessions : executions[s] # procs[p].foundTree
               /\ procs[p].newTree # procs[p].foundTree
               /\ trees[procs[p].newTree].started =>
                      trees[procs[p].newTree].everRegistered
        /\ (Returned(p) /\ RanExecuteDashboard(p) /\ procs[p].foundTree # NoTree) =>
               /\ trees[procs[p].foundTree].cancelInvoked
               /\ procs[p].err = NoError =>
                      /\ procs[p].newTree # NoTree
                      /\ trees[procs[p].newTree].everRegistered
                      /\ trees[procs[p].newTree].started
                      /\ trees[procs[p].newTree].sessionId = procs[p].sessionId

\* an ExecuteDashboard returned nil having replaced a tree that was running:
\* the old tree is cancelled and the new one is the registered tree
C9_ReplacedRunningTree ==
    \E p \in Procs :
        /\ Returned(p)
        /\ procs[p].op = "ExecuteDashboard"
        /\ procs[p].err = NoError
        /\ procs[p].foundTree # NoTree
        /\ trees[procs[p].foundTree].started
        /\ trees[procs[p].foundTree].cancelInvoked
        /\ executions[procs[p].sessionId] = procs[p].newTree

\* C10: when ExecuteDashboard reaches its return with no error of its own and
\* the context's deadline has elapsed, it returns the error "execution timed
\* out" and publishes an ExecutionError event with that error for the session;
\* when the context was cancelled it returns the context's own error; an error
\* of construction or validation is returned as it is.
C10_DeadlineNormalized ==
    \A p \in Procs :
        (Returned(p) /\ RanExecuteDashboard(p)) =>
            LET last == procs[p].events[Len(procs[p].events)]
            IN  /\ (procs[p].ownErr = NoError /\ procs[p].ctxErr = DeadlineExceeded) =>
                       /\ procs[p].err.text = "execution timed out"
                       /\ procs[p].err # DeadlineExceeded
                       /\ Len(procs[p].events) > 0
                       /\ last = ExecutionError(procs[p].err, procs[p].sessionId)
                /\ (procs[p].ownErr = NoError /\ procs[p].ctxErr = Canceled) =>
                       /\ procs[p].err = Canceled
                       /\ Len(procs[p].events) > 0
                       /\ last = ExecutionError(Canceled, procs[p].sessionId)
                /\ procs[p].ownErr # NoError =>
                       /\ procs[p].err = procs[p].ownErr
                       /\ procs[p].err.kind \in {"construction", "validation"}
                /\ (procs[p].ownErr = NoError /\ procs[p].ctxErr = NoError) =>
                       procs[p].err = NoError

\* an ExecuteDashboard that had started its tree returned "execution timed out"
C10_TimedOutAtReturn ==
    \E p \in Procs :
        /\ Returned(p)
        /\ RanExecuteDashboard(p)
        /\ procs[p].ownErr = NoError
        /\ procs[p].ctxErr = DeadlineExceeded
        /\ procs[p].err = TimedOut
        /\ trees[procs[p].newTree].started

\* the step in which goroutine p reads the registry map: in getExecution, or at
\* line 146 of OnInputChanged
ReadsRegistry(p) ==
    \/ procs[p].pc = "cancel_get_locked" /\ procs'[p].pc # "cancel_get_locked"
    \/ procs[p].pc = "idle" /\ procs'[p].op = "OnInputChanged"

\* the step in which goroutine p writes the registry map: in setExecution or in
\* removeExecution
WritesRegistry(p) ==
    /\ procs[p].pc \in {"ed_set_locked", "cancel_remove_locked"}
    /\ procs'[p].pc # procs[p].pc

\* C11: every read and every write of the registry map, in every public
\* operation, is made by a goroutine that holds the registry mutex, so that no
\* read is made while another goroutine is writing the map.
C11_RegistryAccessUnderMutex ==
    [][\A p \in Procs :
          (ReadsRegistry(p) \/ WritesRegistry(p)) =>
              /\ executionLock = p
              /\ Writers \subseteq {p}]_vars

\* C12: after the clearing step every input, other than the changed one, that
\* transitively depends on the changed input through the declared graph,
\* whatever the current values, is null in inputs; a non-null input reached
\* only through an input that was already null is cleared too.
C12_ClosureIsNull ==
    clr.done =>
        \A n \in TransitiveDependents(clr.root, clr.changedInput) \ {clr.changedInput} :
            MapGet(clr.inputs, n) = Null

\* goroutine p runs an OnInputChanged that found a tree and is past the
\* clearing step
OicCleared(p) ==
    procs[p].op = "OnInputChanged" /\ procs[p].oicTree # NoTree

\* the inputs the clearing step of goroutine p changed from non-null to null
ActuallyCleared(p) ==
    {n \in DOMAIN procs[p].inputs :
        MapGet(procs[p].inputsIn, n) # Null /\ procs[p].inputs[n] = Null}

\* the InputValuesCleared events goroutine p has published
ClearedEvents(p) ==
    SelectSeq(procs[p].events, LAMBDA e : e.type = "InputValuesCleared")

\* C13: OnInputChanged publishes an InputValuesCleared event exactly when the
\* clearing step changed at least one input from non-null to null; the event
\* lists every cleared name once and no other name, carries the session and the
\* execution id of the tree the call found, and is published before the call
\* cancels or restarts anything.
C13_ClearedEventExact ==
    \A p \in Procs :
        OicCleared(p) =>
            /\ Len(ClearedEvents(p)) = (IF ActuallyCleared(p) # {} THEN 1 ELSE 0)
            /\ \A i \in 1..Len(ClearedEvents(p)) :
                   /\ Range(ClearedEvents(p)[i].clearedInputs) = ActuallyCleared(p)
                   /\ Len(ClearedEvents(p)[i].clearedInputs) =
                          Cardinality(ActuallyCleared(p))
                   /\ ClearedEvents(p)[i].session = procs[p].sessionId
                   /\ ClearedEvents(p)[i].executionId = procs[p].oicTree
            /\ (Len(ClearedEvents(p)) > 0 /\ procs[p].pc = "oic_decide") =>
                   /\ procs[p].cancelledTree = NoTree
                   /\ procs[p].newTree = NoTree
                   /\ procs[p].events[1].type = "InputValuesCleared"

\* the ExecutionError events goroutine p has published
ErrorEvents(p) ==
    SelectSeq(procs[p].events, LAMBDA e : e.type = "ExecutionError")

\* C14: an ExecuteDashboard call publishes exactly one ExecutionError event,
\* carrying the error it returns and its session, when it returns a non-nil
\* error (of construction, of validation or of the context), and publishes no
\* ExecutionError event when it returns nil nor before it returns.
C14_OneErrorEventPerError ==
    \A p \in Procs :
        /\ ~Returned(p) => ErrorEvents(p) = <<>>
        /\ (Returned(p) /\ RanExecuteDashboard(p)) =>
               IF procs[p].err # NoError
               THEN /\ ErrorEvents(p) =
                           <<ExecutionError(procs[p].err, procs[p].sessionId)>>
                    /\ procs[p].err.kind \in {"construction", "validation", "context", "error"}
               ELSE ErrorEvents(p) = <<>>

\* an ExecuteDashboard returned the construction error and published the one
\* ExecutionError event for it
C14_ConstructionErrorPublished ==
    \E p \in Procs :
        /\ Returned(p)
        /\ procs[p].op = "ExecuteDashboard"
        /\ procs[p].err = ConstructionError
        /\ procs[p].events = <<ExecutionError(ConstructionError, procs[p].sessionId)>>

\* goroutine p is between taking the registry mutex and releasing it
InMapAccess(p) ==
    procs[p].pc \in {"cancel_get_locked", "ed_set_locked", "cancel_remove_locked"}

\* the step in which goroutine p builds a tree, calls Cancel, SetInputValues or
\* Execute on a tree, runs clearDependentInputs or publishes an event
TreeWork(p) ==
    /\ procs'[p] # procs[p]
    /\ \/ procs[p].pc \in {"cancel_tree", "ed_new", "ed_start", "oic_decide"}
       \/ procs[p].pc = "idle" /\ procs'[p].op = "OnInputChanged"
       \/ procs'[p].events # procs[p].events /\ procs'[p].pc # "idle"

\* C15: a goroutine inside tree construction, Tree.Cancel, Tree.SetInputValues,
\* Tree.Execute, clearDependentInputs or the publication of an event does not
\* hold the registry mutex; the mutex is held only from a Lock to the one read,
\* write or delete of the map that follows it, which releases it.
C15_MutexOnlyAcrossMapAccess ==
    /\ [](\A p \in Procs : (executionLock = p) <=> InMapAccess(p))
    /\ [][\A p \in Procs :
             /\ TreeWork(p) => (executionLock # p /\ executionLock' # p)
             /\ (executionLock = p /\ procs'[p] # procs[p]) =>
                    /\ ReadsRegistry(p) \/ WritesRegistry(p)
                    /\ executionLock' = NoLock]_vars

\* a goroutine is about to call Cancel on the tree it found while another
\* goroutine holds the registry mutex
C15_CancelWhileOtherLocks ==
    \E p \in Procs, q \in Procs :
        /\ p # q
        /\ procs[p].pc = "cancel_tree"
        /\ executionLock = q

\* C16: whenever ExecuteDashboard returns a non-nil error (of construction, of
\* validation, deadline exceeded or context cancelled) the tree minted by the
\* call is not in the registry and has not been started: only calls that
\* return nil register and start a tree.
C16_ErrorMeansAbsentTree ==
    \A p \in Procs :
        (Returned(p) /\ RanExecuteDashboard(p) /\ procs[p].err # NoError) =>
            \/ procs[p].newTree = NoTree
            \/ /\ \A s \in Sessions : executions[s] # procs[p].newTree
               /\ ~trees[procs[p].newTree].everRegistered
               /\ ~trees[procs[p].newTree].started

\* C17: under every interleaving of the public operations, every tree whose
\* Execute has been started is the tree registered for its session or has had
\* Cancel invoked: no tree keeps running uncancelled once it has been
\* overwritten in, or removed from, the registry.
C17_NoOrphanedExecution ==
    \A t \in TreeIds :
        trees[t].started =>
            \/ executions[trees[t].sessionId] = t
            \/ trees[t].cancelInvoked

\* C18: in every interleaving, the registry entry a CancelExecutionForSession
\* call deletes holds the tree on which that call invoked Cancel: a tree
\* registered by another call between the lookup and the removal is never
\* deleted by this call.
C18_RemovesWhatItCancelled ==
    \A p \in Procs :
        (procs[p].removed /\ procs[p].removedTree # NoTree) =>
            procs[p].removedTree = procs[p].cancelledTree

\* C19: for every declared dependency graph, those in which the changed input
\* depends on itself or lies on a cycle included, the clearing step of
\* OnInputChanged leaves the value the changed input was passed with as it is
\* and does not list the changed input among the cleared inputs.
C19_ChangedInputKept ==
    (clr.done /\ MapGet(clr.inputs0, clr.changedInput) # Null) =>
        /\ MapGet(clr.inputs, clr.changedInput) = MapGet(clr.inputs0, clr.changedInput)
        /\ clr.changedInput \notin Range(clr.result)

\* a CancelExecutionForSession for the session of goroutine p was invoked after
\* p's call began and has returned, and no client has called anything else for
\* the session since p's call began
CancelledMeanwhile(p) ==
    /\ \E c \in CallsOf(procs[p].sessionId) :
           /\ c > procs[p].call
           /\ calls[c].op = "CancelExecutionForSession"
           /\ calls[c].state = "returned"
    /\ \A d \in CallsOf(procs[p].sessionId) :
           d > procs[p].call => calls[d].op = "CancelExecutionForSession"

\* C20: when a CancelExecutionForSession returns while an OnInputChanged for
\* the same session is in progress and no client calls ExecuteDashboard
\* afterwards, the session stays absent from the registry and the
\* OnInputChanged applies no input values to the cancelled tree.
C20_CancelNotUndone ==
    \A p \in Procs :
        (OicCleared(p) /\ CancelledMeanwhile(p)) =>
            /\ executions[procs[p].sessionId] = NoTree
            /\ ~(procs[p].branch = "apply" /\ trees[procs[p].oicTree].cancelInvoked)

====
